---- MODULE Spec2Model ----
(***************************************************************************)
(* A model of the presentation synthesis engine of ai-ppt-generator:       *)
(* the request handler generate_ppt (server.py), the schema validation     *)
(* (schemas.py) and the converter generate_presentation_stream with its    *)
(* layout selector, placeholder dispatch and image fallback chain          *)
(* (converters/json_to_ppt.py).                                            *)
(*                                                                         *)
(* Optional fields are sequences of length 0 (None) or 1 (a value).        *)
(* A placeholder carries the log of writes made to it ("fill"), so that    *)
(* "written once", "written by tier k" and "left untouched" are facts of   *)
(* the state.                                                              *)
(***************************************************************************)
EXTENDS Integers, Sequences, FiniteSets, TLC

VARIABLES
    pc,                  \* position in generate_ppt / generate_presentation_stream / fill_image
    req_kind,            \* shape of request.json: "none", "topic", "slides", "other"
    json_data,           \* the content graph handed to generate_presentation_stream
    OPENAI_API_KEY,      \* server.py module global, TRUE when set
    UNSPLASH_ACCESS_KEY, \* json_to_ppt.py module global, TRUE when non-empty
    template_exists,     \* os.path.exists(TEMPLATE_PATH)
    data,                \* the validated PresentationInput (<<>> before validation)
    prs,                 \* the in-memory document: loaded flag, layouts, slides, core title
    i,                   \* index of the input slide being processed (1-based)
    j,                   \* index of the placeholder being dispatched (1-based)
    layout,              \* local "layout" of the content-slide loop (<<>> when unset)
    tiers,               \* fill_image: outcome of each tier attempted for the current placeholder
    exc,                 \* the exception in flight or caught (<<>> when none)
    phases,              \* the phases of the synthesis entered so far, in order
    output,              \* the exported buffer: <<>> or <<slides>>
    response             \* the HTTP response of generate_ppt: <<>> or <<[status, error]>>

vars == <<pc, req_kind, json_data, OPENAI_API_KEY, UNSPLASH_ACCESS_KEY, template_exists,
          data, prs, i, j, layout, tiers, exc, phases, output, response>>

----------------------------------------------------------------------------
(* Bounds of the model *)

MaxSlides == 2
MaxTemplateSlides == 1

----------------------------------------------------------------------------
(* json_to_ppt.py: configuration *)

PH_TITLE == 1
PH_BODY == 2
PH_OBJECT == 7
PH_CHART == 8
PH_TABLE == 12
PH_PICTURE == 18

LayoutKeys == {"title_slide", "content_only", "image_right", "image_left", "image_full",
               "table", "chart", "chart_with_text", "two_columns"}

LAYOUTS == [k \in LayoutKeys |->
    CASE k = "title_slide"     -> "Title Slide"
      [] k = "content_only"    -> "Content Only"
      [] k = "image_right"     -> "Image Right"
      [] k = "image_left"      -> "Image Left"
      [] k = "image_full"      -> "Image Full"
      [] k = "table"           -> "Table"
      [] k = "chart"           -> "Chart"
      [] k = "chart_with_text" -> "Chart with Text"
      [] k = "two_columns"     -> "Two Columns"]

LayoutNames == {LAYOUTS[k] : k \in LayoutKeys}

FALLBACK_IMAGE == "placeholder.jpg"

----------------------------------------------------------------------------
(* schemas.py: the content graph *)

None == <<>>
Some(v) == <<v>>
\* Python truthiness of an Optional[model]: None is falsy, a model instance truthy
Present(opt) == opt # None

\* content: None, "", a non-empty string, [], a non-empty list of TextRun
ContentValues == {"None", "str_empty", "str", "runs_empty", "runs"}
\* bullet_points: None, [], a non-empty list
BulletValues == {"None", "list_empty", "list"}

\* presence decided by "is not None" instead of truthiness
Truthy_not_none(v) == v # "None"

\* Python truthiness of content / bullet_points
Truthy(v) == v \in {"str", "runs", "list"}

ImagePaths == {"cat.png", "sunset beach"}
ImageValues == {None} \cup {Some([path |-> p, position |-> q]) :
                              p \in ImagePaths, q \in {"left", "right", "full"}}
TableValues == {None, Some([headers |-> 2, rows |-> 1, style |-> "header_colored"])}
ChartValues == {None, Some([type |-> "column", categories |-> 2, series |-> 1])}
\* layout hints: absent, catalog keys, a name outside the catalog
HintValues == {None} \cup {Some(h) : h \in {"two_columns", "chart_with_text", "title_slide",
                                            "image_left", "Two Columns", "bogus"}}
TitleValues == {"", "S1", "S2"}

SlideSpecs == [title : TitleValues, content : ContentValues, bullet_points : BulletValues,
               table : TableValues, chart : ChartValues, image : ImageValues,
               layout : HintValues]

MinTitleLen == 1
MaxTitleLen == 200

\* Field(..., min_length=1, max_length=200)
TitleOK(t) == Len(t) >= MinTitleLen /\ Len(t) <= MaxTitleLen

\* validate_has_content without its check (the validator always passes)
has_content_always(s) == TRUE

\* SlideContent.validate_has_content: any([...]) over the five payloads
validate_has_content(s) ==
    \/ Truthy(s.content)
    \/ Truthy(s.bullet_points)
    \/ Present(s.table)
    \/ Present(s.chart)
    \/ Present(s.image)

\* SlideContent(**raw): field constraints, then the model validator
SlideValid(s) == TitleOK(s.title) /\ validate_has_content(s)

\* PresentationInput(**json_data)
PresentationValid(d) ==
    /\ TitleOK(d.title)
    /\ Len(d.slides) >= 1
    /\ \A k \in 1..Len(d.slides) : SlideValid(d.slides[k])

Slide(t, c, b, tb, ch, im, ly) ==
    [title |-> t, content |-> c, bullet_points |-> b, table |-> tb, chart |-> ch,
     image |-> im, layout |-> ly]

ATable == Some([headers |-> 2, rows |-> 1, style |-> "header_colored"])
AChart == Some([type |-> "column", categories |-> 2, series |-> 1])
Image(p, q) == Some([path |-> p, position |-> q])

\* the slides a request's content graph is drawn from
MainSlides == {
    Slide("S1", "None", "None", None, None, None, None),
    Slide("", "str", "None", None, None, None, None),
    Slide("S1", "str_empty", "list_empty", None, None, None, None),
    Slide("S1", "str", "None", None, None, None, None),
    Slide("S2", "runs", "list", None, None, None, Some("two_columns")),
    Slide("S1", "str", "None", ATable, None, None, None),
    Slide("S2", "None", "list", ATable, AChart, Image("cat.png", "left"), Some("two_columns")),
    Slide("S1", "str", "None", None, None, Image("cat.png", "right"), None),
    Slide("S2", "str_empty", "list_empty", None, None, Image("sunset beach", "full"), None) }

RECURSIVE SeqsUpTo(_, _)
\* the sequences over S of length 0..n
SeqsUpTo(S, n) ==
    IF n = 0 THEN {<<>>}
    ELSE LET shorter == SeqsUpTo(S, n - 1)
         IN  shorter \cup {Append(q, x) : q \in shorter, x \in S}

Deck(t, st, sl) == [title |-> t, subtitle |-> st, slides |-> sl]

\* request bodies holding a 'slides' key
RequestDecks == {Deck(t, st, sl) : t \in {"", "Deck"}, st \in {None, Some("Sub")},
                                   sl \in SeqsUpTo(MainSlides, MaxSlides)}
\* the body of a request that is not a content graph
NoDeck == Deck("", None, <<>>)
\* structures the topic-to-structure generator hands back (validated by its own schema)
LLMDecks == {d \in RequestDecks : PresentationValid(d) /\ Len(d.slides) = 1
                                   /\ d.subtitle # None}

----------------------------------------------------------------------------
(* The template: named layouts, each a sequence of typed placeholders *)

\* placeholder types of each layout, in document order
LayoutPlaceholders(v, name) ==
    CASE v = "standard" ->
           (CASE name = "Title Slide" -> <<PH_BODY, PH_BODY>>
              [] name = "Content Only" -> <<PH_TITLE, PH_BODY, 15>>
              [] name \in {"Image Right", "Image Left", "Image Full"}
                                       -> <<PH_TITLE, PH_BODY, PH_PICTURE>>
              [] name = "Table" -> <<PH_TITLE, PH_TABLE>>
              [] name = "Chart" -> <<PH_TITLE, PH_CHART>>
              [] name = "Chart with Text" -> <<PH_TITLE, PH_CHART, PH_BODY>>
              [] OTHER -> <<PH_TITLE, PH_BODY, PH_BODY>>)
      [] v = "multi" ->
           (CASE name = "Title Slide" -> <<PH_TITLE, PH_BODY>>
              [] name = "Content Only" -> <<PH_TITLE, PH_OBJECT, PH_BODY>>
              [] name = "Image Right" -> <<PH_PICTURE, PH_TITLE, PH_TITLE>>
              [] name \in {"Image Left", "Image Full"}
                                       -> <<PH_TITLE, PH_PICTURE, PH_OBJECT, PH_BODY>>
              [] name = "Table" -> <<PH_TITLE, PH_TITLE, PH_TABLE, PH_TABLE>>
              [] name = "Chart" -> <<PH_CHART, PH_TITLE, PH_CHART, PH_BODY>>
              [] name = "Chart with Text" -> <<PH_TITLE, PH_CHART, PH_OBJECT, PH_BODY>>
              [] OTHER -> <<PH_BODY, PH_TITLE, PH_OBJECT>>)
      [] OTHER ->
           (CASE name = "Title Slide" -> <<PH_TITLE>>
              [] name = "Content Only" -> <<PH_TITLE>>
              [] name \in {"Image Right", "Image Left", "Image Full"}
                                       -> <<PH_PICTURE, PH_BODY>>
              [] name = "Table" -> <<PH_BODY, PH_TABLE>>
              [] name = "Chart" -> <<>>
              [] OTHER -> <<PH_TITLE, PH_BODY>>)

\* placeholder_format.idx of the k-th placeholder: 0 for the first, 10, 11, ... after
PhIdx(k) == IF k = 1 THEN 0 ELSE 8 + k

\* slide.placeholders of a slide freshly made from a layout: nothing written yet
NewPlaceholders(v, name) ==
    LET types == LayoutPlaceholders(v, name)
    IN  [k \in 1..Len(types) |-> [type |-> types[k], idx |-> PhIdx(k), fill |-> <<>>]]

NewSlide(origin, src, v, name) ==
    [origin |-> origin, src |-> src, layout |-> name,
     placeholders |-> NewPlaceholders(v, name)]

TemplateSlide == [origin |-> "template", src |-> 0, layout |-> "Content Only",
                  placeholders |-> <<>>]

\* the templates a run may load: the placeholders of its layouts, and the layouts it lacks
TemplateChoices == {<<"standard", {}>>, <<"multi", {}>>, <<"sparse", {}>>,
                    <<"standard", {"Title Slide"}>>, <<"multi", {"Chart"}>>}

\* template_slides remembers how many slides the template held when it was loaded
NoPrs == [loaded |-> FALSE, variant |-> "standard", layout_names |-> {}, slides |-> <<>>,
          core_title |-> "", template_slides |-> 0]

----------------------------------------------------------------------------
(* json_to_ppt.py: utilities *)

\* get_layout handing back a layout for any name
LayoutFound_always(p, name) == TRUE

\* get_layout: the layout is found by exact name
LayoutFound(p, name) == name \in p.layout_names

PPTGenerationError(message, available, details) ==
    Some([type |-> "PPTGenerationError", message |-> message, available |-> available,
          details |-> details])
OtherError(type, message) ==
    Some([type |-> type, message |-> message, available |-> {}, details |-> ""])

\* get_layout's raise
LayoutNotFound(p, name) ==
    PPTGenerationError("Layout '" \o name \o "' not found", p.layout_names, "available")

\* detect_layout with the table test ahead of the chart test
detect_layout_table_first(slide) ==
    IF Present(slide.table) THEN LAYOUTS["table"]
    ELSE IF Present(slide.chart) THEN LAYOUTS["chart"]
    ELSE IF Present(slide.image) THEN LAYOUTS["image_" \o slide.image[1].position]
    ELSE IF Present(slide.layout) /\ slide.layout[1] \in DOMAIN LAYOUTS
         THEN LAYOUTS[slide.layout[1]]
    ELSE LAYOUTS["content_only"]

detect_layout(slide) ==
    IF Present(slide.chart) THEN LAYOUTS["chart"]
    ELSE IF Present(slide.table) THEN LAYOUTS["table"]
    ELSE IF Present(slide.image) THEN LAYOUTS["image_" \o slide.image[1].position]
    ELSE IF Present(slide.layout) /\ slide.layout[1] \in DOMAIN LAYOUTS
         THEN LAYOUTS[slide.layout[1]]
    ELSE LAYOUTS["content_only"]

----------------------------------------------------------------------------
(* json_to_ppt.py: placeholder filling *)

Event(by, val) == [by |-> by, val |-> val]

\* the slide being filled is the one added last
CurrentSlide == prs.slides[Len(prs.slides)]

\* the document with one more write on placeholder k of the current slide
WritePh(p, k, ev) ==
    [p EXCEPT !.slides[Len(p.slides)].placeholders[k].fill = Append(@, ev)]

\* [k for k, ph in enumerate(placeholders) if ph.type in types], in placeholder order
PositionsOfTypes(phs, types) ==
    LET Test(k) == phs[k].type \in types
    IN  SelectSeq([k \in 1..Len(phs) |-> k], Test)

\* fill_text: the frame is cleared, then content (when truthy) and the bullets
\* (when truthy) are rendered, content first
fill_text(content, bullet_points) ==
    Event("fill_text", <<IF Truthy(content) THEN content ELSE "",
                         IF Truthy(bullet_points) THEN bullet_points ELSE "">>)
fill_table(t) == Event("fill_table", <<t.style>>)
fill_chart(c) == Event("fill_chart", <<c.type>>)

\* line 279 without the comparison with the first body placeholder's idx
IsFirstBody_any(phs, k) == PositionsOfTypes(phs, {PH_BODY, PH_OBJECT}) # <<>>

\* line 279 comparing with the last body placeholder instead of the first
IsFirstBody_last(phs, k) ==
    LET body_placeholders == PositionsOfTypes(phs, {PH_BODY, PH_OBJECT})
    IN  body_placeholders # <<>>
        /\ phs[k].idx = phs[body_placeholders[Len(body_placeholders)]].idx

\* lines 278-279: ph is the first of the slide's body/object placeholders, by idx
IsFirstBody(phs, k) ==
    LET body_placeholders == PositionsOfTypes(phs, {PH_BODY, PH_OBJECT})
    IN  body_placeholders # <<>> /\ phs[k].idx = phs[body_placeholders[1]].idx

\* the if/elif chain with line 277 testing the placeholder type alone
Dispatch_text_unguarded(ph, slide_data) ==
    IF ph.type = PH_TITLE THEN "title"
    ELSE IF ph.type = PH_PICTURE /\ Present(slide_data.image) THEN "image"
    ELSE IF ph.type = PH_TABLE /\ Present(slide_data.table) THEN "table"
    ELSE IF ph.type = PH_CHART /\ Present(slide_data.chart) THEN "chart"
    ELSE IF ph.type \in {PH_BODY, PH_OBJECT} THEN "text"
    ELSE "none"

\* the branch of the if/elif chain of lines 269-280 taken for placeholder ph
Dispatch(ph, slide_data) ==
    IF ph.type = PH_TITLE THEN "title"
    ELSE IF ph.type = PH_PICTURE /\ Present(slide_data.image) THEN "image"
    ELSE IF ph.type = PH_TABLE /\ Present(slide_data.table) THEN "table"
    ELSE IF ph.type = PH_CHART /\ Present(slide_data.chart) THEN "chart"
    ELSE IF ph.type \in {PH_BODY, PH_OBJECT}
            /\ (Truthy(slide_data.content) \/ Truthy(slide_data.bullet_points)) THEN "text"
    ELSE "none"

----------------------------------------------------------------------------
(* server.py: generate_ppt, up to the call of generate_presentation_stream *)

Init ==
    /\ pc = "request"
    /\ req_kind \in {"none", "topic", "slides", "other"}
    /\ json_data \in IF req_kind = "slides" THEN RequestDecks ELSE {NoDeck}
    /\ OPENAI_API_KEY \in IF req_kind = "topic" THEN BOOLEAN ELSE {TRUE}
    /\ UNSPLASH_ACCESS_KEY \in BOOLEAN
    /\ template_exists \in BOOLEAN
    /\ data = None
    /\ prs = NoPrs
    /\ i = 0
    /\ j = 0
    /\ layout = None
    /\ tiers = <<>>
    /\ exc = None
    /\ phases = <<>>
    /\ output = None
    /\ response = None

Reply(status, error) == Some([status |-> status, error |-> error])

\* lines 43-71: the request is told apart by its keys
ReceiveRequest ==
    /\ pc = "request"
    /\ \/ /\ req_kind = "none"
          /\ response' = Reply(400, "No data provided")
          /\ pc' = "responded"
       \/ /\ req_kind = "topic"
          /\ ~OPENAI_API_KEY
          /\ response' = Reply(500, "OPENAI_API_KEY not configured")
          /\ pc' = "responded"
       \/ /\ req_kind = "topic"
          /\ OPENAI_API_KEY
          /\ response' = response
          /\ pc' = "llm"
       \/ /\ req_kind = "slides"
          /\ response' = response
          /\ pc' = "check_template"
       \/ /\ req_kind = "other"
          /\ response' = Reply(400, "Invalid request. Provide 'topic' or 'slides'.")
          /\ pc' = "responded"
    /\ UNCHANGED <<req_kind, json_data, OPENAI_API_KEY, UNSPLASH_ACCESS_KEY, template_exists,
                   data, prs, i, j, layout, tiers, exc, phases, output>>

\* lines 62-65: the generator returns a validated structure, or raises
CallLLM ==
    /\ pc = "llm"
    /\ \/ /\ json_data' \in LLMDecks
          /\ exc' = exc
          /\ pc' = "check_template"
       \/ /\ json_data' = json_data
          /\ exc' = OtherError("Exception", "generation failed")
          /\ pc' = "handler"
    /\ UNCHANGED <<req_kind, OPENAI_API_KEY, UNSPLASH_ACCESS_KEY, template_exists,
                   data, prs, i, j, layout, tiers, phases, output, response>>

\* lines 73-83: the template asset must exist; then the converter is called
CheckTemplate ==
    /\ pc = "check_template"
    /\ \/ /\ ~template_exists
          /\ response' = Reply(500, "Template missing")
          /\ pc' = "responded"
       \/ /\ template_exists
          /\ response' = response
          /\ pc' = "validate"
    /\ UNCHANGED <<req_kind, json_data, OPENAI_API_KEY, UNSPLASH_ACCESS_KEY, template_exists,
                   data, prs, i, j, layout, tiers, exc, phases, output>>

----------------------------------------------------------------------------
(* json_to_ppt.py: generate_presentation_stream *)

\* lines 234-238
Validate ==
    /\ pc = "validate"
    /\ phases' = Append(phases, "Validate")
    /\ \/ /\ PresentationValid(json_data)
          /\ data' = Some(json_data)
          /\ exc' = exc
          /\ pc' = "load"
       \/ /\ ~PresentationValid(json_data)
          /\ data' = data
          /\ exc' = PPTGenerationError("Validation error", {}, "details")
          /\ pc' = "handler"
    /\ UNCHANGED <<req_kind, json_data, OPENAI_API_KEY, UNSPLASH_ACCESS_KEY, template_exists,
                   prs, i, j, layout, tiers, output, response>>

\* lines 240-242: the template is read: its layouts and the slides it already holds
LoadTemplate ==
    /\ pc = "load"
    /\ phases' = Append(phases, "LoadTemplate")
    /\ \E t \in TemplateChoices, n \in 0..MaxTemplateSlides :
          prs' = [loaded |-> TRUE, variant |-> t[1], layout_names |-> LayoutNames \ t[2],
                  slides |-> [k \in 1..n |-> TemplateSlide], core_title |-> "",
                  template_slides |-> n]
    /\ pc' = "clear"
    /\ UNCHANGED <<req_kind, json_data, OPENAI_API_KEY, UNSPLASH_ACCESS_KEY, template_exists,
                   data, i, j, layout, tiers, exc, output, response>>

\* the loop test of line 245 stopping one slide early
HasSlides_more_than_one(slides) == Len(slides) > 1

\* line 245: "while prs.slides", true while the collection is not empty
HasSlides(slides) == Len(slides) > 0

\* the body of the loop of lines 245-248: the first slide is dropped
DropFirst(slides) == Tail(slides)

\* lines 244-253: one iteration of the clearing loop, or its exit and the metadata
ClearExistingSlides ==
    /\ pc = "clear"
    /\ \/ /\ HasSlides(prs.slides)
          /\ prs' = [prs EXCEPT !.slides = DropFirst(@)]
          /\ phases' = IF phases[Len(phases)] = "ClearExistingSlides" THEN phases
                       ELSE Append(phases, "ClearExistingSlides")
          /\ pc' = "clear"
       \/ /\ ~HasSlides(prs.slides)
          /\ prs' = [prs EXCEPT !.core_title = data[1].title]
          /\ phases' = IF phases[Len(phases)] = "ClearExistingSlides" THEN phases
                       ELSE Append(phases, "ClearExistingSlides")
          /\ pc' = "title"
    /\ UNCHANGED <<req_kind, json_data, OPENAI_API_KEY, UNSPLASH_ACCESS_KEY, template_exists,
                   data, i, j, layout, tiers, exc, output, response>>

\* prs.slides.add_slide: the new slide is appended
AddSlide(slides, s) == Append(slides, s)

\* lines 257-259 on the placeholders of the new title slide
FillTitleSlide(phs, d) ==
    LET body_phs == PositionsOfTypes(phs, {PH_BODY})
        first == IF Len(body_phs) >= 1
                 THEN [phs EXCEPT ![body_phs[1]].fill = Append(@, Event("text", <<d.title>>))]
                 ELSE phs
    IN  IF Len(body_phs) > 1 /\ Present(d.subtitle)
        THEN [first EXCEPT ![body_phs[2]].fill = Append(@, Event("text", d.subtitle))]
        ELSE first

\* the slide loop left after its first iteration
AfterSlide_export(k) == "export"

\* the position after a slide is finished: the next input slide, or the export
AfterSlide(k) == IF k <= Len(data[1].slides) THEN "select" ELSE "export"

\* lines 255-259
WriteTitleSlide ==
    /\ pc = "title"
    /\ phases' = Append(phases, "WriteTitleSlide")
    /\ \/ /\ LayoutFound(prs, LAYOUTS["title_slide"])
          /\ LET s == NewSlide("title", 0, prs.variant, LAYOUTS["title_slide"])
                 filled == [s EXCEPT !.placeholders = FillTitleSlide(@, data[1])]
             IN  prs' = [prs EXCEPT !.slides = AddSlide(@, filled)]
          /\ i' = 1
          /\ exc' = exc
          /\ pc' = AfterSlide(1)
       \/ /\ ~LayoutFound(prs, LAYOUTS["title_slide"])
          /\ exc' = LayoutNotFound(prs, LAYOUTS["title_slide"])
          /\ UNCHANGED <<prs, i>>
          /\ pc' = "handler"
    /\ UNCHANGED <<req_kind, json_data, OPENAI_API_KEY, UNSPLASH_ACCESS_KEY, template_exists,
                   data, j, layout, tiers, output, response>>

\* line 263: the layout is detected and looked up in the template
SelectLayout ==
    /\ pc = "select"
    /\ phases' = Append(phases, "SelectLayout")
    /\ LET name == detect_layout(data[1].slides[i])
       IN  \/ /\ LayoutFound(prs, name)
              /\ layout' = Some(name)
              /\ exc' = exc
              /\ pc' = "instantiate"
           \/ /\ ~LayoutFound(prs, name)
              /\ layout' = layout
              /\ exc' = LayoutNotFound(prs, name)
              /\ pc' = "handler"
    /\ UNCHANGED <<req_kind, json_data, OPENAI_API_KEY, UNSPLASH_ACCESS_KEY, template_exists,
                   data, prs, i, j, tiers, output, response>>

\* line 264
InstantiateSlide ==
    /\ pc = "instantiate"
    /\ phases' = Append(phases, "InstantiateSlide")
    /\ prs' = [prs EXCEPT !.slides = AddSlide(@, NewSlide("content", i, prs.variant, layout[1]))]
    /\ j' = 1
    /\ tiers' = <<>>
    /\ pc' = "fill"
    /\ UNCHANGED <<req_kind, json_data, OPENAI_API_KEY, UNSPLASH_ACCESS_KEY, template_exists,
                   data, i, layout, exc, output, response>>

EnterFill == IF phases[Len(phases)] = "FillPlaceholders" THEN phases
             ELSE Append(phases, "FillPlaceholders")

\* lines 266-280: one iteration of the placeholder loop, for every branch but the image
FillPlaceholder ==
    /\ pc = "fill"
    /\ j <= Len(CurrentSlide.placeholders)
    /\ phases' = EnterFill
    /\ LET slide_data == data[1].slides[i]
           phs == CurrentSlide.placeholders
           branch == Dispatch(phs[j], slide_data)
       IN  /\ branch # "image"
           /\ prs' = CASE branch = "title" -> WritePh(prs, j, Event("text", <<slide_data.title>>))
                       [] branch = "table" -> WritePh(prs, j, fill_table(slide_data.table[1]))
                       [] branch = "chart" -> WritePh(prs, j, fill_chart(slide_data.chart[1]))
                       [] branch = "text" /\ IsFirstBody(phs, j) ->
                              WritePh(prs, j, fill_text(slide_data.content,
                                                        slide_data.bullet_points))
                       [] OTHER -> prs
    /\ j' = j + 1
    /\ tiers' = <<>>
    /\ UNCHANGED <<pc, req_kind, json_data, OPENAI_API_KEY, UNSPLASH_ACCESS_KEY,
                   template_exists, data, i, layout, exc, output, response>>

\* lines 271-272: the picture branch calls fill_image
EnterFillImage ==
    /\ pc = "fill"
    /\ j <= Len(CurrentSlide.placeholders)
    /\ Dispatch(CurrentSlide.placeholders[j], data[1].slides[i]) = "image"
    /\ phases' = EnterFill
    /\ tiers' = <<>>
    /\ pc' = "tier1"
    /\ UNCHANGED <<req_kind, json_data, OPENAI_API_KEY, UNSPLASH_ACCESS_KEY, template_exists,
                   data, prs, i, j, layout, exc, output, response>>

\* the placeholder loop is over: on to the next input slide
SlideDone ==
    /\ pc = "fill"
    /\ j > Len(CurrentSlide.placeholders)
    /\ phases' = EnterFill
    /\ i' = i + 1
    /\ layout' = None
    /\ pc' = AfterSlide(i + 1)
    /\ tiers' = <<>>
    /\ UNCHANGED <<req_kind, json_data, OPENAI_API_KEY, UNSPLASH_ACCESS_KEY, template_exists,
                   data, prs, j, exc, output, response>>

----------------------------------------------------------------------------
(* json_to_ppt.py: fetch_image_from_unsplash and fill_image *)

\* what the remote search can come to: no credential (line 168), or one of the
\* outcomes of the requests of lines 177-186
FetchOutcomes == IF UNSPLASH_ACCESS_KEY
                 THEN {"network_error", "timeout", "empty_result", "stream"}
                 ELSE {"no_credential"}

\* fill_image with the local tier's insertion outside a try block
Propagates_local_insert(where, failure) == where = "tier2" /\ failure = "insert_error"

\* whether a failure is raised to the caller of fill_image: every request and every
\* insert_picture is inside a try block whose handler logs and goes on
\* (lines 172-190, 201-205, 209-213, 217-222)
Propagates(where, failure) == FALSE

\* fill_image without its return statements
ReturnsAfterWrite_never(t) == FALSE

\* lines 203, 211, 220: a tier that inserted its picture returns
ReturnsAfterWrite(t) == TRUE

TierPc(t) == CASE t = 1 -> "tier1" [] t = 2 -> "tier2" [] t = 3 -> "tier3" [] OTHER -> "tier4"

\* line 225: the textual tier writes when the placeholder has a text frame
TextTierWrites(has_text_frame) == has_text_frame

\* line 226 without the path
ImageText_no_path(path) == "[IMAGE]"

\* line 226
ImageText(path) == "[IMAGE: " \o path \o "]"

\* one tier of fill_image came to "outcome": "wrote" (with the event written), a
\* failure that is logged, or a failure that is raised
TierResult(t, where, outcome, ev) ==
    IF outcome = "wrote"
    THEN /\ prs' = WritePh(prs, j, ev)
         /\ tiers' = Append(tiers, "wrote")
         /\ pc' = IF ReturnsAfterWrite(t) THEN "fill" ELSE TierPc(t + 1)
         /\ j' = IF ReturnsAfterWrite(t) THEN j + 1 ELSE j
         /\ exc' = exc
    ELSE IF Propagates(where, outcome)
    THEN /\ exc' = OtherError("Exception", outcome)
         /\ pc' = "handler"
         /\ UNCHANGED <<prs, tiers, j>>
    ELSE /\ tiers' = Append(tiers, outcome)
         /\ pc' = TierPc(t + 1)
         /\ UNCHANGED <<prs, j, exc>>

ImageData == data[1].slides[i].image[1]

\* lines 198-205, with fetch_image_from_unsplash (lines 166-192)
RemoteTier ==
    /\ pc = "tier1"
    /\ \E f \in FetchOutcomes, inserted \in BOOLEAN :
          IF f = "stream"
          THEN TierResult(1, "tier1", IF inserted THEN "wrote" ELSE "insert_error",
                          Event("unsplash", <<ImageData.path>>))
          ELSE TierResult(1, "fetch", f, Event("unsplash", <<ImageData.path>>))
    /\ UNCHANGED <<req_kind, json_data, OPENAI_API_KEY, UNSPLASH_ACCESS_KEY, template_exists,
                   data, i, layout, phases, output, response>>

\* lines 207-213
LocalTier ==
    /\ pc = "tier2"
    /\ \E exists \in BOOLEAN, inserted \in BOOLEAN :
          TierResult(2, "tier2",
                     IF ~exists THEN "missing" ELSE IF inserted THEN "wrote" ELSE "insert_error",
                     Event("local", <<ImageData.path>>))
    /\ UNCHANGED <<req_kind, json_data, OPENAI_API_KEY, UNSPLASH_ACCESS_KEY, template_exists,
                   data, i, layout, phases, output, response>>

\* lines 215-222
FallbackTier ==
    /\ pc = "tier3"
    /\ \E exists \in BOOLEAN, inserted \in BOOLEAN :
          TierResult(3, "tier3",
                     IF ~exists THEN "missing" ELSE IF inserted THEN "wrote" ELSE "insert_error",
                     Event("fallback", <<FALLBACK_IMAGE>>))
    /\ UNCHANGED <<req_kind, json_data, OPENAI_API_KEY, UNSPLASH_ACCESS_KEY, template_exists,
                   data, i, layout, phases, output, response>>

\* lines 224-226: the last tier; fill_image returns after it
TextTier ==
    /\ pc = "tier4"
    /\ \E has_text_frame \in BOOLEAN :
          IF TextTierWrites(has_text_frame)
          THEN /\ prs' = WritePh(prs, j, Event("text", <<ImageText(ImageData.path)>>))
               /\ tiers' = Append(tiers, "wrote")
          ELSE /\ prs' = prs
               /\ tiers' = Append(tiers, "no_text_frame")
    /\ pc' = "fill"
    /\ j' = j + 1
    /\ UNCHANGED <<req_kind, json_data, OPENAI_API_KEY, UNSPLASH_ACCESS_KEY, template_exists,
                   data, i, layout, exc, phases, output, response>>

----------------------------------------------------------------------------
(* Export, and the end of generate_ppt *)

\* lines 282-286
Export ==
    /\ pc = "export"
    /\ phases' = Append(phases, "Export")
    /\ output' = Some(prs.slides)
    /\ pc' = "returned"
    /\ UNCHANGED <<req_kind, json_data, OPENAI_API_KEY, UNSPLASH_ACCESS_KEY, template_exists,
                   data, prs, i, j, layout, tiers, exc, response>>

\* server.py lines 96-104: the status each exception class is answered with
ErrorStatus(e) == IF e.type = "PPTGenerationError" THEN 400 ELSE 500

\* server.py lines 84-94
RespondOk ==
    /\ pc = "returned"
    /\ phases' = Append(phases, "Done")
    /\ response' = Reply(200, "")
    /\ pc' = "responded"
    /\ UNCHANGED <<req_kind, json_data, OPENAI_API_KEY, UNSPLASH_ACCESS_KEY, template_exists,
                   data, prs, i, j, layout, tiers, exc, output>>

\* server.py lines 96-104
RespondError ==
    /\ pc = "handler"
    /\ response' = Reply(ErrorStatus(exc[1]), exc[1].message)
    /\ pc' = "responded"
    /\ UNCHANGED <<req_kind, json_data, OPENAI_API_KEY, UNSPLASH_ACCESS_KEY, template_exists,
                   data, prs, i, j, layout, tiers, exc, phases, output>>

Next ==
    \/ ReceiveRequest
    \/ CallLLM
    \/ CheckTemplate
    \/ Validate
    \/ LoadTemplate
    \/ ClearExistingSlides
    \/ WriteTitleSlide
    \/ SelectLayout
    \/ InstantiateSlide
    \/ FillPlaceholder
    \/ EnterFillImage
    \/ RemoteTier
    \/ LocalTier
    \/ FallbackTier
    \/ TextTier
    \/ SlideDone
    \/ Export
    \/ RespondOk
    \/ RespondError

Spec == Init /\ [][Next]_vars

----------------------------------------------------------------------------
(* The layout selector on its own: detect_layout applied to every slide the schema  *)
(* accepts                                                                          *)

ValidSlideSpecs == {s \in SlideSpecs : SlideValid(s)}

InitLayout ==
    /\ pc = "detect"
    /\ req_kind = "slides"
    /\ \E s \in ValidSlideSpecs : json_data = Deck("Deck", None, <<s>>)
    /\ data = Some(json_data)
    /\ OPENAI_API_KEY = TRUE
    /\ UNSPLASH_ACCESS_KEY = FALSE
    /\ template_exists = TRUE
    /\ prs = NoPrs
    /\ i = 1
    /\ j = 0
    /\ layout = None
    /\ tiers = <<>>
    /\ exc = None
    /\ phases = <<>>
    /\ output = None
    /\ response = None

\* detect_layout(slide_data) of line 263, without the lookup in the template
DetectLayout ==
    /\ pc = "detect"
    /\ layout' = Some(detect_layout(data[1].slides[i]))
    /\ pc' = "detected"
    /\ UNCHANGED <<req_kind, json_data, OPENAI_API_KEY, UNSPLASH_ACCESS_KEY, template_exists,
                   data, prs, i, j, tiers, exc, phases, output, response>>

NextLayout == DetectLayout

SpecLayout == InitLayout /\ [][NextLayout]_vars

----------------------------------------------------------------------------
(* Claims *)

\* C1: detect_layout follows the precedence chart > table > image > hint > default,
\* first match winning: with a chart the layout is Chart whatever else the slide
\* holds; else with a table it is Table; else with an image it is the Image layout
\* of the image's position; else a hint naming a catalog key gives that key's
\* layout; else Content Only.
C1_LayoutPrecedence ==
    pc = "detected" =>
        LET s == data[1].slides[i]
            name == layout[1]
        IN  /\ Present(s.chart) => name = "Chart"
            /\ ~Present(s.chart) /\ Present(s.table) => name = "Table"
            /\ ~Present(s.chart) /\ ~Present(s.table) /\ Present(s.image) =>
                  /\ s.image[1].position = "left" => name = "Image Left"
                  /\ s.image[1].position = "right" => name = "Image Right"
                  /\ s.image[1].position = "full" => name = "Image Full"
            /\ ~Present(s.chart) /\ ~Present(s.table) /\ ~Present(s.image) =>
                  /\ s.layout = Some("two_columns") => name = "Two Columns"
                  /\ s.layout = Some("chart_with_text") => name = "Chart with Text"
                  /\ s.layout = Some("title_slide") => name = "Title Slide"
                  /\ s.layout = Some("image_left") => name = "Image Left"
                  /\ s.layout \in {None, Some("bogus"), Some("Two Columns")}
                        => name = "Content Only"

\* a slide with a chart, a table, an image and a layout hint got the chart layout
C1_Witness ==
    /\ pc = "detected"
    /\ Present(data[1].slides[i].chart)
    /\ Present(data[1].slides[i].table)
    /\ Present(data[1].slides[i].image)
    /\ data[1].slides[i].layout = Some("two_columns")
    /\ layout = Some("Chart")

\* fill_image has just returned to the placeholder loop: "tiers" holds the outcome of
\* each tier it attempted, in tier order, and placeholder j - 1 is the one it filled
ImageReturned == pc = "fill" /\ tiers # <<>>

FilledPlaceholder == CurrentSlide.placeholders[j - 1]

\* the tier whose output an event on a picture placeholder is
TierOfEvent(ev) ==
    CASE ev.by = "unsplash" -> 1
      [] ev.by = "local" -> 2
      [] ev.by = "fallback" -> 3
      [] OTHER -> 4

\* C2 as stated: after every image resolution exactly one tier's output is in the
\* placeholder, from the first tier that did not fail, under every combination of
\* the outcomes of the four tiers.
C2_ExactlyOneTier ==
    ImageReturned =>
        /\ Len(FilledPlaceholder.fill) = 1
        /\ TierOfEvent(FilledPlaceholder.fill[1]) = Len(tiers)
        /\ \A k \in 1..(Len(tiers) - 1) : tiers[k] # "wrote"

\* C2, amended: after every image resolution at most one tier's output is in the
\* placeholder; a tier is attempted only after every earlier tier failed; when some
\* tier did not fail the output is that of the first such tier and of no other; when
\* all four failed (the last because the placeholder has no text frame) the
\* placeholder is left as it was.
C2_AtMostOneTier ==
    ImageReturned =>
        /\ Len(tiers) <= 4
        /\ \A k \in 1..(Len(tiers) - 1) : tiers[k] # "wrote"
        /\ tiers[Len(tiers)] = "wrote" =>
              /\ Len(FilledPlaceholder.fill) = 1
              /\ TierOfEvent(FilledPlaceholder.fill[1]) = Len(tiers)
        /\ tiers[Len(tiers)] # "wrote" =>
              /\ FilledPlaceholder.fill = <<>>
              /\ Len(tiers) = 4
              /\ tiers[4] = "no_text_frame"

\* the remote search found nothing, the local file is missing, and the fallback
\* asset was inserted: the third tier's output, and only it, is in the placeholder
C2_Witness ==
    /\ ImageReturned
    /\ tiers = <<"empty_result", "missing", "wrote">>
    /\ FilledPlaceholder.fill = <<Event("fallback", <<FALLBACK_IMAGE>>)>>

ImageFailures == {"no_credential", "network_error", "timeout", "empty_result",
                  "insert_error", "missing", "no_text_frame"}

InFillImage == pc \in {"tier1", "tier2", "tier3", "tier4"}

\* C3: no failure while resolving an image is raised: from inside fill_image every
\* step either goes on to a later tier or returns normally to the placeholder loop
\* at the next placeholder, with no exception in flight, and no exception the run
\* ever carries stems from an image failure.
C3_ImageFailureNeverRaised ==
    [][/\ InFillImage =>
             /\ exc' = None
             /\ pc' \in {"tier2", "tier3", "tier4", "fill"}
             /\ pc' = "fill" => j' = j + 1
       /\ exc' # None => exc'[1].message \notin ImageFailures]_vars

\* a document was exported with a picture placeholder left empty: with a credential
\* configured, every tier of that image's resolution had failed
C3_Witness ==
    /\ pc = "returned"
    /\ output # None
    /\ UNSPLASH_ACCESS_KEY
    /\ \E k \in 2..Len(output[1]) :
          /\ Present(data[1].slides[k - 1].image)
          /\ \E n \in 1..Len(output[1][k].placeholders) :
                /\ output[1][k].placeholders[n].type = PH_PICTURE
                /\ output[1][k].placeholders[n].fill = <<>>

\* the expected literal of the textual tier, spelled out for each path of the model
ExpectedImageText(path) ==
    IF path = "cat.png" THEN "[IMAGE: cat.png]" ELSE "[IMAGE: sunset beach]"

\* C10 as stated: with no credential, no local file and no fallback asset the
\* picture placeholder holds the text [IMAGE: <path>].
C10_TextWhenAllFail ==
    (ImageReturned /\ Len(tiers) = 4 /\ tiers[1] = "no_credential"
       /\ tiers[2] = "missing" /\ tiers[3] = "missing") =>
        FilledPlaceholder.fill = <<Event("text", <<ExpectedImageText(ImageData.path)>>)>>

\* C10, amended: with no credential, no local file and no fallback asset, a picture
\* placeholder that has a text frame holds the text [IMAGE: <path>] (one without a
\* text frame is left empty); and the text is only ever written after the three
\* earlier tiers failed.
C10_TextWhenAllFailAndTextFrame ==
    ImageReturned =>
        /\ (Len(tiers) = 4 /\ tiers[1] = "no_credential" /\ tiers[2] = "missing"
              /\ tiers[3] = "missing") =>
              IF tiers[4] = "no_text_frame"
              THEN FilledPlaceholder.fill = <<>>
              ELSE FilledPlaceholder.fill =
                      <<Event("text", <<ExpectedImageText(ImageData.path)>>)>>
        /\ (FilledPlaceholder.fill # <<>> /\ FilledPlaceholder.fill[1].by = "text") =>
              /\ Len(tiers) = 4
              /\ \A k \in 1..3 : tiers[k] \in ImageFailures

\* no credential, no local file, no fallback asset, a text frame: the text is there
C10_Witness ==
    /\ ImageReturned
    /\ tiers = <<"no_credential", "missing", "missing", "wrote">>
    /\ ~UNSPLASH_ACCESS_KEY
    /\ ImageData.path = "sunset beach"
    /\ FilledPlaceholder.fill = <<Event("text", <<"[IMAGE: sunset beach]">>)>>

\* the placeholder loop of the current content slide is over
SlideFilled == pc = "fill" /\ j > Len(CurrentSlide.placeholders)

Role(type) ==
    CASE type = PH_TITLE -> "title"
      [] type = PH_PICTURE -> "picture"
      [] type = PH_TABLE -> "table"
      [] type = PH_CHART -> "chart"
      [] type \in {PH_BODY, PH_OBJECT} -> "body"
      [] OTHER -> "other"

Written(ph) == ph.fill # <<>>

\* the position of the first placeholder of the role of placeholder k
FirstOfRole(phs, k) ==
    CHOOSE n \in 1..k :
        /\ Role(phs[n].type) = Role(phs[k].type)
        /\ \A m \in 1..(n - 1) : Role(phs[m].type) # Role(phs[k].type)

\* C4 as stated: on every content slide only the first placeholder of each role is
\* written; further instances of a role are left unwritten.
C4_FirstInstancePerRole ==
    SlideFilled =>
        LET phs == CurrentSlide.placeholders
        IN  \A k \in 1..Len(phs) : Written(phs[k]) => FirstOfRole(phs, k) = k

\* C4, amended: every placeholder is written at most once. Of the body/object
\* placeholders only the first is ever written (when the slide has content or
\* bullet points). Every title placeholder is set to
\* the slide's title, every table container is filled exactly when the slide has a
\* table and every chart container exactly when it has a chart, and a picture
\* placeholder is only written when the slide has an image: further instances of
\* these roles are written like the first.
C4_FirstInstanceBodyOnly ==
    SlideFilled =>
        LET phs == CurrentSlide.placeholders
            slide_data == data[1].slides[i]
        IN  \A k \in 1..Len(phs) :
              /\ Len(phs[k].fill) <= 1
              /\ Role(phs[k].type) = "body" =>
                    (Written(phs[k]) <=>
                        /\ FirstOfRole(phs, k) = k
                        /\ Truthy(slide_data.content) \/ Truthy(slide_data.bullet_points))
              /\ Role(phs[k].type) = "title" =>
                    phs[k].fill = <<Event("text", <<slide_data.title>>)>>
              /\ Role(phs[k].type) = "table" =>
                    (Written(phs[k]) <=> Present(slide_data.table))
              /\ Role(phs[k].type) = "chart" =>
                    (Written(phs[k]) <=> Present(slide_data.chart))
              /\ Role(phs[k].type) = "picture" /\ Written(phs[k]) =>
                    Present(slide_data.image)
              /\ Role(phs[k].type) = "other" => ~Written(phs[k])

\* a slide with a table on a layout with two table containers: both were filled
C4_Witness ==
    /\ SlideFilled
    /\ \E k1, k2 \in 1..Len(CurrentSlide.placeholders) :
          /\ k1 < k2
          /\ CurrentSlide.placeholders[k1].type = PH_TABLE
          /\ CurrentSlide.placeholders[k2].type = PH_TABLE
          /\ Written(CurrentSlide.placeholders[k1])
          /\ Written(CurrentSlide.placeholders[k2])

BodyPositions(phs) == {k \in 1..Len(phs) : phs[k].type \in {PH_BODY, PH_OBJECT}}

\* C5: on a slide with content and/or bullet points whose layout has two or more
\* body-role placeholders, the first of them in placeholder order received the text,
\* once, and every other one is empty.
C5_SingleFill ==
    SlideFilled =>
        LET phs == CurrentSlide.placeholders
            slide_data == data[1].slides[i]
            bodies == BodyPositions(phs)
        IN  (Cardinality(bodies) >= 2
               /\ (Truthy(slide_data.content) \/ Truthy(slide_data.bullet_points))) =>
                \A k \in bodies :
                    IF \A m \in bodies : k <= m
                    THEN /\ Len(phs[k].fill) = 1
                         /\ phs[k].fill[1].by = "fill_text"
                    ELSE phs[k].fill = <<>>

\* a slide with text runs and bullets on a layout with two body-role placeholders:
\* the first holds both, the second nothing
C5_Witness ==
    /\ SlideFilled
    /\ Cardinality(BodyPositions(CurrentSlide.placeholders)) = 2
    /\ data[1].slides[i].content = "runs"
    /\ data[1].slides[i].bullet_points = "list"
    /\ \E k1, k2 \in BodyPositions(CurrentSlide.placeholders) :
          /\ k1 < k2
          /\ CurrentSlide.placeholders[k1].fill = <<Event("fill_text", <<"runs", "list">>)>>
          /\ CurrentSlide.placeholders[k2].fill = <<>>

\* the run ended in an error: the exception reached generate_ppt's handlers
Raised == pc \in {"handler", "responded"} /\ exc # None

LastPhase == phases[Len(phases)]

\* every input slide is in the document, after the title slide, on the layout
\* selected for it, a layout of the template, with its placeholders dispatched
CompleteDocument(slides) ==
    /\ Len(slides) = Len(data[1].slides) + 1
    /\ slides[1].origin = "title"
    /\ slides[1].layout = "Title Slide"
    /\ \A k \in 1..Len(data[1].slides) :
          /\ slides[k + 1].origin = "content"
          /\ slides[k + 1].src = k
          /\ slides[k + 1].layout \in prs.layout_names
          /\ \A n \in 1..Len(slides[k + 1].placeholders) :
                LET ph == slides[k + 1].placeholders[n]
                IN  /\ ph.type = PH_TITLE => Written(ph)
                    /\ ph.type = PH_TABLE /\ Present(data[1].slides[k].table) => Written(ph)
                    /\ ph.type = PH_CHART /\ Present(data[1].slides[k].chart) => Written(ph)

\* C6: synthesis is all or nothing. A buffer is only ever returned for a complete
\* document and with no error; a run that raised returned no buffer. A validation
\* failure is a PPTGenerationError raised before the template is loaded or a slide
\* written; a layout name the template lacks, on the title slide or on any input
\* slide, is a PPTGenerationError carrying the template's layout names.
C6_AllOrNothing ==
    /\ output # None => exc = None /\ CompleteDocument(output[1])
    /\ exc # None => output = None
    /\ (Raised /\ phases # <<>> /\ LastPhase = "Validate") =>
          /\ exc = PPTGenerationError("Validation error", {}, "details")
          /\ prs = NoPrs
    /\ (Raised /\ phases # <<>> /\ LastPhase = "WriteTitleSlide") =>
          /\ exc = PPTGenerationError("Layout 'Title Slide' not found",
                                      prs.layout_names, "available")
          /\ "Title Slide" \notin prs.layout_names
          /\ prs.slides = <<>>
    /\ (Raised /\ phases # <<>> /\ LastPhase = "SelectLayout") =>
          /\ exc[1].type = "PPTGenerationError"
          /\ exc[1].available = prs.layout_names
          /\ \E name \in LayoutNames \ prs.layout_names :
                exc[1].message = "Layout '" \o name \o "' not found"
          /\ Len(prs.slides) = i

\* the second input slide's layout is not in the template: the title slide and the
\* first input slide are in memory, an error was raised, and nothing was exported
C6_Witness ==
    /\ Raised
    /\ phases # <<>> /\ LastPhase = "SelectLayout"
    /\ i = 2
    /\ Len(prs.slides) = 2
    /\ exc[1].message = "Layout 'Chart' not found"
    /\ output = None

\* C7: a successful synthesis of N input slides exports exactly N + 1 slides: the
\* title slide, then one slide per input slide in input order, each carrying its
\* input slide's title; no slide of the template is among them.
C7_SlideCountAndOrder ==
    pc = "returned" =>
        LET out == output[1]
            N == Len(json_data.slides)
        IN  /\ Len(out) = N + 1
            /\ out[1].origin = "title"
            /\ \A k \in 1..N :
                  /\ out[k + 1].origin = "content"
                  /\ out[k + 1].src = k
                  /\ out[k + 1].layout = detect_layout(json_data.slides[k])
            /\ \A k \in 1..Len(out) : out[k].origin # "template"

\* two input slides on a template that held a slide of its own: three slides out
C7_Witness ==
    /\ pc = "returned"
    /\ prs.template_slides >= 1
    /\ Len(json_data.slides) = 2
    /\ json_data.slides[1] # json_data.slides[2]
    /\ Len(output[1]) = 3

\* a slide with a valid title and none of content, bullet points, table, chart, image
TitleOnly(s) ==
    /\ s.title # ""
    /\ s.content = "None"
    /\ s.bullet_points = "None"
    /\ s.table = None
    /\ s.chart = None
    /\ s.image = None

\* C8: a presentation holding a title-only slide is rejected as a whole: once past
\* validation the run carries the validation error, the template was never loaded,
\* no document exists, and the request is not answered with a file.
C8_NoContentRejected ==
    (/\ req_kind = "slides"
     /\ \E k \in 1..Len(json_data.slides) : TitleOnly(json_data.slides[k])) =>
        /\ pc \in {"request", "check_template", "validate", "handler", "responded"}
        /\ pc \in {"handler", "responded"} /\ template_exists =>
              exc = PPTGenerationError("Validation error", {}, "details")
        /\ prs = NoPrs
        /\ output = None
        /\ pc = "responded" => response[1].status # 200

\* a valid first slide followed by a title-only slide: the whole request is refused
C8_Witness ==
    /\ pc = "responded"
    /\ json_data.title = "Deck"
    /\ Len(json_data.slides) = 2
    /\ json_data.slides[1] = Slide("S1", "str", "None", None, None, None, None)
    /\ TitleOnly(json_data.slides[2])
    /\ exc = PPTGenerationError("Validation error", {}, "details")
    /\ response[1].status = 400

\* C9: at the request boundary a configuration error (the template asset missing, a
\* layout name missing from the template) is answered in the server-side class
\* (5xx) and a malformed content graph in the bad-request class (4xx); the two
\* never share a class.
C9_ConfigurationErrorsDistinct ==
    pc = "responded" =>
        /\ (exc # None /\ exc[1].message = "Validation error") => response[1].status = 400
        /\ (exc # None /\ exc[1].type = "PPTGenerationError"
              /\ exc[1].message # "Validation error") => response[1].status = 500
        /\ response[1].error = "Template missing" => response[1].status = 500

IsPrefix(p, q) == Len(p) <= Len(q) /\ \A k \in 1..Len(p) : p[k] = q[k]

\* the phases of a complete run over N input slides, in the order of section 4.5
ExpectedPhases(N) ==
    <<"Validate", "LoadTemplate", "ClearExistingSlides", "WriteTitleSlide">>
    \o [k \in 1..(3 * N) |-> CASE k % 3 = 1 -> "SelectLayout"
                               [] k % 3 = 2 -> "InstantiateSlide"
                               [] OTHER -> "FillPlaceholders"]
    \o <<"Export", "Done">>

\* C11: the phases entered so far are always an initial part of Validate,
\* LoadTemplate, ClearExistingSlides, WriteTitleSlide, then SelectLayout,
\* InstantiateSlide, FillPlaceholders once per input slide in input order, then
\* Export, Done: no phase is skipped, repeated or entered out of order. The layout
\* of input slide i is selected when exactly the title slide and the i - 1 slides
\* before it are in the document, and the export happens with all N + 1 there.
C11_LinearPhases ==
    LET N == Len(json_data.slides)
    IN  /\ IsPrefix(phases, ExpectedPhases(N))
        /\ pc \in {"select", "instantiate"} =>
              /\ i \in 1..N
              /\ Len(prs.slides) = i
              /\ Len(phases) = 4 + 3 * (i - 1) + (IF pc = "select" THEN 0 ELSE 1)
        /\ pc \in {"fill", "tier1", "tier2", "tier3", "tier4"} =>
              /\ Len(prs.slides) = i + 1
              /\ CurrentSlide.src = i
              /\ \A k \in j..Len(CurrentSlide.placeholders) :
                    ~Written(CurrentSlide.placeholders[k])
        /\ pc \in {"export", "returned"} =>
              /\ i = N + 1
              /\ Len(prs.slides) = N + 1
        /\ pc = "returned" => phases = SubSeq(ExpectedPhases(N), 1, 4 + 3 * N + 1)
        /\ (pc = "responded" /\ response[1].status = 200) => phases = ExpectedPhases(N)

\* a run over two input slides went through all twelve phases in order
C11_Witness ==
    /\ pc = "responded"
    /\ response[1].status = 200
    /\ Len(json_data.slides) = 2
    /\ phases = <<"Validate", "LoadTemplate", "ClearExistingSlides", "WriteTitleSlide",
                  "SelectLayout", "InstantiateSlide", "FillPlaceholders",
                  "SelectLayout", "InstantiateSlide", "FillPlaceholders",
                  "Export", "Done">>

----------------------------------------------------------------------------
(* The placeholder dispatch over single-slide requests: every combination of   *)
(* absent, empty and non-empty payloads, with layout hints that put a picture, *)
(* table or chart placeholder on a slide that has no such payload              *)

FillSlides == {Slide("S1", c, b, tb, ch, im, ly) :
                  c \in ContentValues, b \in BulletValues,
                  tb \in {None, ATable}, ch \in {None, AChart},
                  im \in {None, Image("cat.png", "right")},
                  ly \in {None, Some("image_left"), Some("chart_with_text"), Some("table")}}

FillDecks == {Deck("Deck", None, <<s>>) : s \in FillSlides}

InitFill ==
    /\ pc = "request"
    /\ req_kind \in {"none", "topic", "slides", "other"}
    /\ json_data \in IF req_kind = "slides" THEN FillDecks ELSE {NoDeck}
    /\ OPENAI_API_KEY \in IF req_kind = "topic" THEN BOOLEAN ELSE {TRUE}
    /\ UNSPLASH_ACCESS_KEY \in BOOLEAN
    /\ template_exists \in BOOLEAN
    /\ data = None
    /\ prs = NoPrs
    /\ i = 0
    /\ j = 0
    /\ layout = None
    /\ tiers = <<>>
    /\ exc = None
    /\ phases = <<>>
    /\ output = None
    /\ response = None

SpecFill == InitFill /\ [][Next]_vars

----------------------------------------------------------------------------
(* Claims on the placeholder dispatch *)

\* the positions of the content slides in the document
ContentSlides == {m \in 1..Len(prs.slides) : prs.slides[m].origin = "content"}

\* the placeholder loop has gone past placeholder n of slide m
Dispatched(m, n) ==
    \/ m < Len(prs.slides)
    \/ pc \notin {"fill", "tier1", "tier2", "tier3", "tier4"}
    \/ n < j

\* C12: a picture placeholder is never written on a slide without an image, a table
\* container never on a slide without a table, a chart container never on a slide
\* without a chart, and no body/object placeholder on a slide that has neither
\* content nor bullet points; every title placeholder the loop has passed holds
\* exactly the slide's title.
C12_UntouchedWithoutPayload ==
    \A m \in ContentSlides :
        LET phs == prs.slides[m].placeholders
            slide_data == data[1].slides[prs.slides[m].src]
        IN  \A n \in 1..Len(phs) :
              /\ phs[n].type = PH_PICTURE /\ slide_data.image = None => phs[n].fill = <<>>
              /\ phs[n].type = PH_TABLE /\ slide_data.table = None => phs[n].fill = <<>>
              /\ phs[n].type = PH_CHART /\ slide_data.chart = None => phs[n].fill = <<>>
              /\ (phs[n].type \in {PH_BODY, PH_OBJECT} /\ slide_data.content = "None"
                    /\ slide_data.bullet_points = "None") => phs[n].fill = <<>>
              /\ phs[n].type = PH_TITLE /\ Dispatched(m, n) =>
                    phs[n].fill = <<Event("text", <<slide_data.title>>)>>

\* a slide with text but no image, put on an image layout by its hint: the loop is
\* over, the picture placeholder is untouched and the title is set
C12_Witness ==
    /\ SlideFilled
    /\ data[1].slides[i].image = None
    /\ data[1].slides[i].content = "str"
    /\ \E n \in 1..Len(CurrentSlide.placeholders) :
          /\ CurrentSlide.placeholders[n].type = PH_PICTURE
          /\ CurrentSlide.placeholders[n].fill = <<>>
    /\ \E n \in 1..Len(CurrentSlide.placeholders) :
          /\ CurrentSlide.placeholders[n].type = PH_TITLE
          /\ CurrentSlide.placeholders[n].fill = <<Event("text", <<"S1">>)>>

\* neither content nor bullet points holds anything: each is absent or empty
NoText(s) ==
    /\ s.content \in {"None", "str_empty", "runs_empty"}
    /\ s.bullet_points \in {"None", "list_empty"}

\* a slide whose only payloads are an empty content and/or an empty bullet list
EmptyOnly(s) ==
    /\ s.title # ""
    /\ NoText(s)
    /\ s.content # "None" \/ s.bullet_points # "None"
    /\ s.table = None
    /\ s.chart = None
    /\ s.image = None

\* C13: presence is truthiness. A request holding a slide whose only payloads are
\* empty (an empty string, an empty list of runs, an empty bullet list) is rejected
\* like one holding a title-only slide: validation error, template never loaded, no
\* document, no file in the answer. And on a slide that is valid through its table,
\* chart or image, an empty or absent content together with an empty or absent
\* bullet list never leads to a write on a body/object placeholder.
C13_PresenceIsTruthiness ==
    /\ (/\ req_kind = "slides"
        /\ \E k \in 1..Len(json_data.slides) : EmptyOnly(json_data.slides[k])) =>
           /\ pc \in {"request", "check_template", "validate", "handler", "responded"}
           /\ pc \in {"handler", "responded"} /\ template_exists =>
                 exc = PPTGenerationError("Validation error", {}, "details")
           /\ prs = NoPrs
           /\ output = None
           /\ pc = "responded" => response[1].status # 200
    /\ \A m \in ContentSlides :
          LET phs == prs.slides[m].placeholders
          IN  NoText(data[1].slides[prs.slides[m].src]) =>
                 \A n \in 1..Len(phs) :
                     phs[n].type \in {PH_BODY, PH_OBJECT} => phs[n].fill = <<>>

\* a slide with an image, an empty string as content and an empty bullet list: the
\* loop is over, the title is set and the body placeholder was not written
C13_Witness ==
    /\ SlideFilled
    /\ data[1].slides[i].content = "str_empty"
    /\ data[1].slides[i].bullet_points = "list_empty"
    /\ Present(data[1].slides[i].image)
    /\ \E n \in 1..Len(CurrentSlide.placeholders) :
          /\ CurrentSlide.placeholders[n].type \in {PH_BODY, PH_OBJECT}
          /\ CurrentSlide.placeholders[n].fill = <<>>
    /\ \E n \in 1..Len(CurrentSlide.placeholders) :
          /\ CurrentSlide.placeholders[n].type = PH_TITLE
          /\ Written(CurrentSlide.placeholders[n])

====
